---- MODULE Spec2Model ----
(***************************************************************************)
(* osutil `outdated`: process_outdated fetches the list of packages the    *)
(* user maintains, then runs handle_pkg over every package through         *)
(* buffer_unordered(4).  Each handle_pkg future asks repology for the      *)
(* package's repositories and, with --leap, probes the build service with  *)
(* a dry-run branch request before deciding whether to print a line.       *)
(*                                                                         *)
(* Strings are TLA+ strings; Option<T> is a sequence of length 0 or 1.     *)
(* A branch listing is kept as the set of the `project` attributes of its  *)
(* packages: the code only asks whether some package has a given project.  *)
(***************************************************************************)
EXTENDS Naturals, Sequences, FiniteSets

VARIABLES
    maintained,               \* what the build service lists for the user
    repology,                 \* upstream: project name -> Vec<ProjectRepo>
    show_packages_not_found,  \* Outdated.show_packages_not_found
    leap_ver,                 \* Outdated.leap_ver : Option<String>
    pc,                       \* where process_outdated is
    pkgs,                     \* the stream's items (result of get_maintained_pkgs)
    next,                     \* index of the next item the stream will yield
    units,                    \* one handle_pkg future per item
    stdout,                   \* println! lines, in order
    stderr,                   \* eprintln! lines (and panic messages), in order
    obs_branches              \* the packages branched in the build service

vars == <<maintained, repology, show_packages_not_found, leap_ver,
          pc, pkgs, next, units, stdout, stderr, obs_branches>>

-----------------------------------------------------------------------------
(* Bounds of the model *)

\* the longest list of maintained packages
MaxPkgs == 5
\* the longest repology answer of the single-package runs
MaxRepos == 3
\* how many requests of one run may fail
MaxFaults == 2

-----------------------------------------------------------------------------
(* Option<T> *)

None == <<>>
Some(v) == <<v>>

\* a find that keeps the last match
find_last(s, matching) ==
    IF matching = {} THEN None
    ELSE Some(s[CHOOSE i \in matching : \A j \in matching : j <= i])

\* Iterator::find, given the indices its closure accepts: the first of them
find(s, matching) ==
    IF matching = {} THEN None
    ELSE Some(s[CHOOSE i \in matching : \A j \in matching : i <= j])

-----------------------------------------------------------------------------
(* String helpers *)

PyPrefix == "python-"

starts_with(s, p) == Len(s) >= Len(p) /\ SubSeq(s, 1, Len(p)) = p

\* a name sent to repology as it is
no_strip(pkg) == pkg

\* pkg.strip_prefix("python-").unwrap_or(&pkg)
repo_pkg_of(pkg) ==
    IF starts_with(pkg, PyPrefix)
    THEN SubSeq(pkg, Len(PyPrefix) + 1, Len(pkg))
    ELSE pkg

\* str::replace for a one-character pattern
RECURSIVE replace(_, _, _)
replace(s, from, to) ==
    IF Len(s) = 0 THEN ""
    ELSE (IF SubSeq(s, 1, 1) = from THEN to ELSE SubSeq(s, 1, 1))
         \o replace(SubSeq(s, 2, Len(s)), from, to)

\* format!("opensuse_leap_{}", leap_ver.replace('.', "_"))
leap_repo_name(ver) == "opensuse_leap_" \o replace(ver, ".", "_")

-----------------------------------------------------------------------------
(* The decision logic of handle_pkg *)

TwName == "opensuse_tumbleweed"

tw_repo_of(repos) == find(repos, {k \in DOMAIN repos : repos[k].repo = TwName})

newest_version_of(repos) ==
    LET n == find(repos, {k \in DOMAIN repos : repos[k].status = "newest"})
    IN  IF n = None THEN "?" ELSE n[1].version

leap_repo_of(repos, ver) ==
    find(repos, {k \in DOMAIN repos : repos[k].repo = leap_repo_name(ver)})

\* the match on leap_ver; None stands for unimplemented!()
data_of(ver) ==
    IF ver = "15.4"
    THEN Some(<<"SLE-15-SP4", <<"SLE-15-SP3:Update", "SLE-15-SP2:Update">>>>)
    ELSE None

from_latest_sle(collection, data) ==
    \E project \in collection : project = "SUSE:" \o data[1]

from_latest_backports(collection, data) ==
    \E project \in collection : project = "openSUSE:Backports:" \o data[1]

from_older_backports(collection, data) ==
    \E project \in collection :
        \E k \in DOMAIN data[2] : project = "openSUSE:Backports:" \o data[2][k]

\* a gate that forgets the latest line's own project
leap_reportable_any(collection, data) ==
    \/ from_latest_backports(collection, data)
    \/ from_older_backports(collection, data)

leap_reportable(collection, data) ==
    \/ from_latest_backports(collection, data)
    \/ (~from_latest_sle(collection, data) /\ from_older_backports(collection, data))

\* println!("{}: {} -> {}", pkg, version, newest_version)
report_line(pkg, version, newest) == pkg \o ": " \o version \o " -> " \o newest

\* a notice under the name sent to repology
not_found_line_stripped(pkg) == "Could not find package " \o repo_pkg_of(pkg)

\* println!("Could not find package {}", pkg)
not_found_line(pkg) == "Could not find package " \o pkg

-----------------------------------------------------------------------------
(* The environment: what the two services can answer *)

Repo(repo, version, status) == [repo |-> repo, version |-> version, status |-> status]

\* the packages the build service lists, in its order
CatalogPkgs == <<"foo", "python-bar", "baz", "python-qux", "dup", "corge", "quux">>

\* a repology database for the batch runs; "bar" is unknown upstream
CatalogRepology ==
    [k \in {"foo", "baz", "qux", "dup", "corge", "quux"} |->
        CASE k = "foo"   -> <<Repo(TwName, "1.0", "outdated"), Repo("other", "1.2", "newest")>>
          [] k = "baz"   -> <<Repo(TwName, "2.1", "newest"),
                              Repo("opensuse_leap_15_4", "2.0", "outdated"),
                              Repo("opensuse_leap_15_5", "2.0", "outdated")>>
          [] k = "qux"   -> <<Repo("other", "0.9", "legacy"), Repo(TwName, "3.0", "outdated")>>
          [] k = "dup"   -> <<Repo(TwName, "1.1", "newest"), Repo(TwName, "1.0", "outdated")>>
          [] k = "corge" -> <<Repo(TwName, "4.0", "newest"),
                              Repo("opensuse_leap_15_4", "4.0", "newest"),
                              Repo("opensuse_leap_15_5", "4.0", "newest")>>
          [] k = "quux"  -> <<Repo("other", "5.0", "newest")>>]

MaintainedLists == {SubSeq(CatalogPkgs, 1, n) : n \in 0..MaxPkgs}

LeapVers == {"15.4", "15.5"}

\* the single-package runs: every response of up to MaxRepos entries
UnitPkgs == {"foo", "python-foo"}
UnitLeapVers == {"15.4", "15_4"}
UnitEntries ==
    [repo : {TwName, "opensuse_leap_15_4"}, version : {"1.0", "2.0"},
     status : {"outdated", "newest"}]
UnitResponses == UNION {[1..n -> UnitEntries] : n \in 0..MaxRepos}

\* the owning projects a dry-run branch listing may name
BranchProjects ==
    {"SUSE:SLE-15-SP4", "openSUSE:Backports:SLE-15-SP4",
     "openSUSE:Backports:SLE-15-SP3:Update", "openSUSE:Backports:SLE-15-SP2:Update"}
BranchListings == SUBSET BranchProjects

\* GET https://repology.org/api/v1/project/{repo_pkg}: [] for an unknown project
lookup(key) == IF key \in DOMAIN repology THEN repology[key] ELSE <<>>

-----------------------------------------------------------------------------
(* process_outdated *)

\* a buffer one slot too wide
CeilingRaised == 4 + 1

\* .buffer_unordered(4)
Ceiling == 4

\* st: idle, lookup (repology request sent), probe (branch request sent), done,
\* panicked, dropped; cause: which step ended the unit in an error or a panic;
\* lookups, probes: requests sent so far; branch_req: the branch request, once
\* sent; hung: the pending request never returns
IdleUnit == [st |-> "idle", repo_pkg |-> "", repos |-> None, collection |-> None,
             res |-> "none", cause |-> "none", lookups |-> 0, probes |-> 0,
             branch_req |-> None, hung |-> FALSE]

InFlight == {i \in DOMAIN units : units[i].st \in {"lookup", "probe"}}

\* buffer_unordered fills its queue from the stream before it polls the queue
Filled == next > Len(pkgs) \/ Cardinality(InFlight) >= Ceiling

Init ==
    /\ maintained \in MaintainedLists
    /\ repology = CatalogRepology
    /\ show_packages_not_found \in BOOLEAN
    /\ leap_ver \in {None} \cup {Some(v) : v \in LeapVers}
    /\ pc = "start"
    /\ pkgs = <<>>
    /\ next = 1
    /\ units = <<>>
    /\ stdout = <<>>
    /\ stderr = <<>>
    /\ obs_branches = {}

InitUnit ==
    /\ maintained \in {<<p>> : p \in UnitPkgs}
    /\ repology \in {[k \in {"foo"} |-> r] : r \in UnitResponses}
    /\ show_packages_not_found \in BOOLEAN
    /\ leap_ver \in {None} \cup {Some(v) : v \in UnitLeapVers}
    /\ pc = "start"
    /\ pkgs = <<>>
    /\ next = 1
    /\ units = <<>>
    /\ stdout = <<>>
    /\ stderr = <<>>
    /\ obs_branches = {}

Env == <<maintained, repology, show_packages_not_found, leap_ver>>

\* main returning Err: the runtime writes "Error: ..." to standard error
MainErrText == "Error: unable to get maintained projects"

\* get_maintained_pkgs().await? succeeded: the stream is built over its items
GetMaintainedOk ==
    /\ pc = "start"
    /\ pc' = "running"
    /\ pkgs' = maintained
    /\ units' = [i \in DOMAIN maintained |-> IdleUnit]
    /\ UNCHANGED <<Env, next, stdout, stderr, obs_branches>>

\* get_maintained_pkgs().await? failed (send, text or from_reader): `?` returns Err
GetMaintainedErr ==
    /\ pc = "start"
    /\ pc' = "failed"
    /\ stderr' = Append(stderr, [by |-> 0, text |-> MainErrText])
    /\ UNCHANGED <<Env, pkgs, next, units, stdout, obs_branches>>

\* the for_each closure on a unit's result
Emit(out, i, text) == Append(out, [by |-> i, text |-> text])

\* a unit returns Ok(()) after printing `lines` (zero or one line)
ReturnOk(i, u, lines) ==
    /\ units' = [units EXCEPT ![i] = [u EXCEPT !.st = "done", !.res = "Ok"]]
    /\ stdout' = stdout \o [k \in DOMAIN lines |-> [by |-> i, text |-> lines[k]]]
    /\ UNCHANGED <<Env, pc, pkgs, next, stderr, obs_branches>>

\* a coordinator that logs the error and sends the lookup again
ReturnErr_retry(i, u, cause, err) ==
    /\ units' = [units EXCEPT ![i] = [u EXCEPT !.st = "lookup", !.lookups = @ + 1,
                                                !.cause = cause]]
    /\ stderr' = Append(stderr, [by |-> i, text |-> err])
    /\ UNCHANGED <<Env, pc, pkgs, next, stdout, obs_branches>>

\* a coordinator that swallows the error
ReturnErr_silent(i, u, cause, err) ==
    /\ units' = [units EXCEPT ![i] = [u EXCEPT !.st = "done", !.res = "Err",
                                                !.cause = cause]]
    /\ UNCHANGED <<Env, pc, pkgs, next, stdout, stderr, obs_branches>>

\* a unit returns Err(err): Err(err) => eprintln!("{}", err)
ReturnErr(i, u, cause, err) ==
    /\ units' = [units EXCEPT ![i] = [u EXCEPT !.st = "done", !.res = "Err",
                                                !.cause = cause]]
    /\ stderr' = Emit(stderr, i, err)
    /\ UNCHANGED <<Env, pc, pkgs, next, stdout, obs_branches>>

\* a unit panics: the panic unwinds through buffer_unordered, for_each and
\* main's block_on; the futures still in the queue are dropped unfinished
Panic(i, u, cause, msg) ==
    /\ units' = [j \in DOMAIN units |->
                    IF j = i THEN [u EXCEPT !.st = "panicked", !.cause = cause]
                    ELSE IF units[j].st \in {"lookup", "probe"}
                         THEN [units[j] EXCEPT !.st = "dropped"]
                         ELSE units[j]]
    /\ pc' = "panicked"
    /\ stderr' = Emit(stderr, i, msg)
    /\ UNCHANGED <<Env, pkgs, next, stdout, obs_branches>>

\* a coordinator that handles one package at a time
Start_sequential(i) ==
    /\ pc = "running"
    /\ i = next
    /\ i <= Len(pkgs)
    /\ InFlight = {}
    /\ units' = [units EXCEPT ![i] = [@ EXCEPT !.st = "lookup",
                                               !.repo_pkg = repo_pkg_of(pkgs[i]),
                                               !.lookups = @ + 1]]
    /\ next' = next + 1
    /\ UNCHANGED <<Env, pc, pkgs, stdout, stderr, obs_branches>>

\* the stream yields the next item, handle_pkg is called on it and the new
\* future, first polled, sends the repology request
Start(i) ==
    /\ pc = "running"
    /\ i = next
    /\ i <= Len(pkgs)
    /\ Cardinality(InFlight) < Ceiling
    /\ units' = [units EXCEPT ![i] = [@ EXCEPT !.st = "lookup",
                                               !.repo_pkg = repo_pkg_of(pkgs[i]),
                                               !.lookups = @ + 1]]
    /\ next' = next + 1
    /\ UNCHANGED <<Env, pc, pkgs, stdout, stderr, obs_branches>>

-----------------------------------------------------------------------------
(* handle_pkg *)

\* the context of a failed send to repology
lookup_send_err(pkg, repo_pkg) ==
    "unable to get project information from repology for package " \o pkg
    \o (IF repo_pkg # pkg THEN ", searched for " \o repo_pkg ELSE "")

\* the context of a failed .json::<Vec<ProjectRepo>>()
lookup_json_err(pkg) == "unable to deserialize json for package " \o pkg

\* the context of a failed send of the branch request
ProbeSendErrText == "unable to get maintained projects"
\* the serde_xml_rs error of from_reader, passed on by the ? operator
ProbeXmlErrText == "serde_xml_rs: unexpected document"
\* .text().await.unwrap() on an Err
UnwrapPanicText == "called Result::unwrap() on an Err value"
\* unimplemented!()
UnimplementedPanicText == "not implemented"

\* a handle_pkg that keeps the notice to the runs without --leap
after_lookup_silent(pkg, repos, show, leap) ==
    LET tw_repo == tw_repo_of(repos)
        newest_version == newest_version_of(repos)
    IN  IF leap # None
        THEN LET leap_repo == leap_repo_of(repos, leap[1])
             IN  [probe |-> /\ tw_repo # None
                            /\ leap_repo # None
                            /\ leap_repo[1].version # newest_version,
                  lines |-> <<>>]
        ELSE IF tw_repo # None
             THEN [probe |-> FALSE,
                   lines |-> IF tw_repo[1].status = "outdated"
                             THEN <<report_line(pkg, tw_repo[1].version, newest_version)>>
                             ELSE <<>>]
             ELSE [probe |-> FALSE,
                   lines |-> IF show THEN <<not_found_line(pkg)>> ELSE <<>>]

\* a handle_pkg that probes whenever the leap entry exists
after_lookup_always_probe(pkg, repos, show, leap) ==
    LET tw_repo == tw_repo_of(repos)
        newest_version == newest_version_of(repos)
    IN  IF tw_repo # None
        THEN IF leap # None
             THEN [probe |-> leap_repo_of(repos, leap[1]) # None, lines |-> <<>>]
             ELSE [probe |-> FALSE,
                   lines |-> IF tw_repo[1].status = "outdated"
                             THEN <<report_line(pkg, tw_repo[1].version, newest_version)>>
                             ELSE <<>>]
        ELSE [probe |-> FALSE,
              lines |-> IF show THEN <<not_found_line(pkg)>> ELSE <<>>]

\* what handle_pkg does with the repology answer, up to its next await:
\* probe = it sends the dry-run branch request, lines = what it prints
after_lookup(pkg, repos, show, leap) ==
    LET tw_repo == tw_repo_of(repos)
        newest_version == newest_version_of(repos)
    IN  IF tw_repo # None
        THEN IF leap # None
             THEN LET leap_repo == leap_repo_of(repos, leap[1])
                  IN  [probe |-> leap_repo # None /\ leap_repo[1].version # newest_version,
                       lines |-> <<>>]
             ELSE [probe |-> FALSE,
                   lines |-> IF tw_repo[1].status = "outdated"
                             THEN <<report_line(pkg, tw_repo[1].version, newest_version)>>
                             ELSE <<>>]
        ELSE [probe |-> FALSE,
              lines |-> IF show THEN <<not_found_line(pkg)>> ELSE <<>>]

\* a handle_pkg that reports and then adds the notice
after_probe_two_lines(pkg, repos, ver, collection) ==
    LET data == data_of(ver)
        leap_repo == leap_repo_of(repos, ver)
    IN  IF data = None
        THEN [panic |-> TRUE, lines |-> <<>>]
        ELSE [panic |-> FALSE,
              lines |-> IF leap_reportable(collection, data[1])
                        THEN <<report_line(pkg, leap_repo[1].version,
                                           newest_version_of(repos)),
                               not_found_line(pkg)>>
                        ELSE <<>>]

\* what handle_pkg does with the decoded branch listing
after_probe(pkg, repos, ver, collection) ==
    LET data == data_of(ver)
        leap_repo == leap_repo_of(repos, ver)
    IN  IF data = None
        THEN [panic |-> TRUE, lines |-> <<>>]
        ELSE [panic |-> FALSE,
              lines |-> IF leap_reportable(collection, data[1])
                        THEN <<report_line(pkg, leap_repo[1].version,
                                           newest_version_of(repos))>>
                        ELSE <<>>]

\* the network fails at most MaxFaults requests of a run; every failure is logged
MayFail == Len(stderr) < MaxFaults

\* a coordinator that takes the results in the order of the list
Polled_in_order(i) ==
    /\ pc = "running"
    /\ Filled
    /\ i \in DOMAIN units
    /\ ~units[i].hung
    /\ \A j \in 1..(i - 1) : units[j].st = "done"

\* a unit may be polled once the queue has been filled
Polled(i) ==
    /\ pc = "running"
    /\ Filled
    /\ i \in DOMAIN units
    /\ ~units[i].hung

\* client.get(..).send().await fails
LookupSendErr(i) ==
    /\ Polled(i)
    /\ MayFail
    /\ units[i].st = "lookup"
    /\ ReturnErr(i, units[i], "lookup_send", lookup_send_err(pkgs[i], units[i].repo_pkg))

\* the answer does not decode as Vec<ProjectRepo>
LookupJsonErr(i) ==
    /\ Polled(i)
    /\ MayFail
    /\ units[i].st = "lookup"
    /\ ReturnErr(i, units[i], "lookup_json", lookup_json_err(pkgs[i]))

\* a request sent without the dry-run flag
branch_request_wet(pkg) ==
    [cmd |-> "branch", dryrun |-> FALSE, package |-> pkg,
     update_project_attribute |-> "OBS:UpdateProject"]

\* POST {API}/source?cmd=branch&dryrun=1&package={pkg}&update_project_attribute=..
branch_request(pkg) ==
    [cmd |-> "branch", dryrun |-> TRUE, package |-> pkg,
     update_project_attribute |-> "OBS:UpdateProject"]

\* the build service on a branch request: a dry run only lists, a real one
\* branches the package
serve_branch(branches, req) ==
    IF req.dryrun THEN branches ELSE branches \cup {req.package}

\* the answer decodes: lines 172-252 up to the branch request
LookupOk(i) ==
    /\ Polled(i)
    /\ units[i].st = "lookup"
    /\ LET repos == lookup(units[i].repo_pkg)
           u == [units[i] EXCEPT !.repos = Some(repos)]
           d == after_lookup(pkgs[i], repos, show_packages_not_found, leap_ver)
       IN  IF d.probe
           THEN /\ units' = [units EXCEPT ![i] =
                              [u EXCEPT !.st = "probe", !.probes = @ + 1,
                                        !.branch_req = Some(branch_request(pkgs[i]))]]
                /\ obs_branches' = serve_branch(obs_branches, branch_request(pkgs[i]))
                /\ UNCHANGED <<Env, pc, pkgs, next, stdout, stderr>>
           ELSE ReturnOk(i, u, d.lines)

\* client.post(..).send().await fails
ProbeSendErr(i) ==
    /\ Polled(i)
    /\ MayFail
    /\ units[i].st = "probe"
    /\ ReturnErr(i, units[i], "probe_send", ProbeSendErrText)

\* .text().await fails: unwrap panics
ProbeTextErr(i) ==
    /\ Polled(i)
    /\ MayFail
    /\ units[i].st = "probe"
    /\ Panic(i, units[i], "probe_text", UnwrapPanicText)

\* from_reader(text.as_bytes())? fails
ProbeXmlErr(i) ==
    /\ Polled(i)
    /\ MayFail
    /\ units[i].st = "probe"
    /\ ReturnErr(i, units[i], "probe_xml", ProbeXmlErrText)

\* the listing decodes: lines 207-252
ProbeOk(i, collection) ==
    /\ Polled(i)
    /\ units[i].st = "probe"
    /\ LET u == [units[i] EXCEPT !.collection = Some(collection)]
           d == after_probe(pkgs[i], units[i].repos[1], leap_ver[1], collection)
       IN  IF d.panic
           THEN Panic(i, u, "unimplemented", UnimplementedPanicText)
           ELSE ReturnOk(i, u, d.lines)

\* the stream is exhausted and the queue is empty: for_each ends, Ok(())
Finish ==
    /\ pc = "running"
    /\ next > Len(pkgs)
    /\ InFlight = {}
    /\ pc' = "done"
    /\ UNCHANGED <<Env, pkgs, next, units, stdout, stderr, obs_branches>>

\* a request of unit i never returns: the unit keeps its slot for good
Hang(i) ==
    /\ Polled(i)
    /\ units[i].st \in {"lookup", "probe"}
    /\ \A j \in DOMAIN units : ~units[j].hung
    /\ units' = [units EXCEPT ![i] = [@ EXCEPT !.hung = TRUE]]
    /\ UNCHANGED <<Env, pc, pkgs, next, stdout, stderr, obs_branches>>

Next ==
    \/ GetMaintainedOk
    \/ GetMaintainedErr
    \/ \E i \in DOMAIN units : Start(i)
    \/ \E i \in DOMAIN units : LookupSendErr(i)
    \/ \E i \in DOMAIN units : LookupJsonErr(i)
    \/ \E i \in DOMAIN units : LookupOk(i)
    \/ \E i \in DOMAIN units : ProbeSendErr(i)
    \/ \E i \in DOMAIN units : ProbeTextErr(i)
    \/ \E i \in DOMAIN units : ProbeXmlErr(i)
    \/ \E i \in DOMAIN units : \E collection \in BranchListings : ProbeOk(i, collection)
    \/ Finish

\* a batch over the catalog
Spec == Init /\ [][Next]_vars

\* one package, every upstream response
SpecUnit == InitUnit /\ [][Next]_vars

\* a batch in which one request may hang
NextHang ==
    \/ Next
    \/ \E i \in DOMAIN units : Hang(i)

SpecHang == Init /\ [][NextHang]_vars

-----------------------------------------------------------------------------
(* Helpers of the properties *)

\* the texts unit i has written to a stream, in order
RECURSIVE TextsBy(_, _)
TextsBy(out, i) ==
    IF out = <<>> THEN <<>>
    ELSE (IF Head(out).by = i THEN <<Head(out).text>> ELSE <<>>) \o TextsBy(Tail(out), i)

Started(i) == units[i].st # "idle"
Ended(i) == units[i].st \in {"done", "panicked"}
Terminal == pc \in {"done", "failed", "panicked"}

\* the indices of the entries of a repository, and of the entries of a status
OfRepo(repos, name) == {k \in DOMAIN repos : repos[k].repo = name}
OfStatus(repos, status) == {k \in DOMAIN repos : repos[k].status = status}
Lowest(K) == CHOOSE k \in K : \A j \in K : k <= j

\* the version of the first entry whose status is newest, or "?"
ExpectedNewest(repos) ==
    IF OfStatus(repos, "newest") = {} THEN "?"
    ELSE repos[Lowest(OfStatus(repos, "newest"))].version

\* the repository name of a --leap version
ExpectedLeapRepo(ver) ==
    CASE ver = "15.4" -> "opensuse_leap_15_4"
      [] ver = "15_4" -> "opensuse_leap_15_4"
      [] ver = "15.5" -> "opensuse_leap_15_5"

ExpectedReport(pkg, version, newest) == pkg \o ": " \o version \o " -> " \o newest
ExpectedNotFound(pkg) == "Could not find package " \o pkg

\* unit i has its repology answer
Answered(i) == units[i].repos # None

-----------------------------------------------------------------------------
(* C1 - C4: the coordinator *)

\* C1: at every moment of a batch at most 4 units of work (handle_pkg futures
\* started and not finished) are in flight, hence at most 4 upstream lookups.
C1_AtMostFourInFlight ==
    /\ Cardinality({i \in DOMAIN units : Started(i) /\ ~Ended(i) /\ units[i].st # "dropped"}) <= 4
    /\ Cardinality({i \in DOMAIN units : units[i].st = "lookup"}) <= 4

\* the ceiling is reached while a package still waits in the stream
C1_Witness ==
    /\ Cardinality({i \in DOMAIN units : units[i].st = "lookup"}) = 4
    /\ next <= Len(pkgs)

\* C2: a unit failing with a network or decode error, at the upstream lookup or
\* at the branch probe, cancels no sibling and does not stop the batch.
C2_FailureCancelsNoSibling ==
    \A i \in DOMAIN units :
        units[i].cause \in {"lookup_send", "lookup_json", "probe_send", "probe_text", "probe_xml"}
        => /\ pc # "panicked"
           /\ \A j \in DOMAIN units : units[j].st # "dropped"

\* C3: process_outdated ends in failure exactly when the list of maintained
\* packages could not be fetched; with the list fetched it ends in success,
\* whatever lookup or branch-probe errors (transport, decode, body read) the
\* units met.  Stated for the runs whose --leap version is absent or mapped.
C3_EndsInSuccessIffListFetched ==
    (leap_ver = None \/ leap_ver = Some("15.4"))
    => /\ (Terminal /\ pc # "failed" => pc = "done")
       /\ (pc = "failed" => units = <<>> /\ next = 1)

\* C4: with a --leap version the table does not map, a package reaching the
\* branch-eligibility check fails alone: no other unit is cancelled and the
\* process still ends in success.
C4_UnmappedVersionFailsOneUnit ==
    \A i \in DOMAIN units :
        units[i].cause = "unimplemented"
        => /\ pc # "panicked"
           /\ \A j \in DOMAIN units : units[j].st # "dropped"

-----------------------------------------------------------------------------
(* C5 - C10: the decision of one unit *)

\* C5 as claimed: without --leap, a package whose lookup succeeded gets a report
\* line exactly when its answer contains an opensuse_tumbleweed entry whose
\* status is outdated, and the line carries that entry's version.
C5_ReportIffSomeTwEntryOutdated ==
    \A i \in DOMAIN units :
        (leap_ver = None /\ units[i].st = "done" /\ Answered(i))
        => LET repos == units[i].repos[1]
               lines == TextsBy(stdout, i)
               O == OfRepo(repos, "opensuse_tumbleweed") \cap OfStatus(repos, "outdated")
           IN  IF O # {}
               THEN \E k \in O :
                       lines = <<ExpectedReport(pkgs[i], repos[k].version, ExpectedNewest(repos))>>
               ELSE lines \in {<<>>, <<ExpectedNotFound(pkgs[i])>>}

\* C5, amended: without --leap, a package whose lookup succeeded gets a report
\* line exactly when the first opensuse_tumbleweed entry of its answer has status
\* outdated; the line is "P: <that entry's version> -> <N>", N the version of
\* the first entry with status newest or "?"; a first entry that is not outdated
\* gives no line at all.
C5_ReportIffFirstTwEntryOutdated ==
    \A i \in DOMAIN units :
        (leap_ver = None /\ units[i].st = "done" /\ Answered(i))
        => LET repos == units[i].repos[1]
               lines == TextsBy(stdout, i)
               T == OfRepo(repos, "opensuse_tumbleweed")
           IN  IF T = {} THEN lines \in {<<>>, <<ExpectedNotFound(pkgs[i])>>}
               ELSE IF repos[Lowest(T)].status = "outdated"
                    THEN lines = <<ExpectedReport(pkgs[i], repos[Lowest(T)].version,
                                                  ExpectedNewest(repos))>>
                    ELSE lines = <<>>

\* a report is printed for an answer with two opensuse_tumbleweed entries
C5_Witness ==
    \E i \in DOMAIN units :
        /\ leap_ver = None /\ units[i].st = "done" /\ Answered(i)
        /\ Cardinality(OfRepo(units[i].repos[1], "opensuse_tumbleweed")) >= 2
        /\ TextsBy(stdout, i) # <<>>
        /\ TextsBy(stdout, i) # <<ExpectedNotFound(pkgs[i])>>

\* C6: without --leap, a package whose answer has no opensuse_tumbleweed entry
\* (the empty answer included) prints "Could not find package P" exactly when
\* the flag is set, ends Ok and logs no error.
C6_NotFoundNoticeIffFlag ==
    \A i \in DOMAIN units :
        (leap_ver = None /\ Answered(i) /\ OfRepo(units[i].repos[1], "opensuse_tumbleweed") = {})
        => /\ units[i].st = "done"
           /\ units[i].res = "Ok"
           /\ TextsBy(stdout, i) = IF show_packages_not_found
                                   THEN <<ExpectedNotFound(pkgs[i])>> ELSE <<>>
           /\ TextsBy(stderr, i) = <<>>

\* the notice is printed for a prefixed package
C6_Witness ==
    \E i \in DOMAIN units :
        /\ leap_ver = None /\ Answered(i) /\ show_packages_not_found
        /\ OfRepo(units[i].repos[1], "opensuse_tumbleweed") = {}
        /\ pkgs[i] = "python-foo"
        /\ TextsBy(stdout, i) = <<"Could not find package python-foo">>

\* C7: with --leap 15.4, for a package with an opensuse_tumbleweed entry and an
\* opensuse_leap_15_4 entry whose version differs from the newest version, and
\* for every listing the probe returns, "P: <leap version> -> <newest>" is
\* printed exactly when the listing names openSUSE:Backports:SLE-15-SP4, or
\* does not name SUSE:SLE-15-SP4 and names the backports of an older line.
C7_LeapReportIffEligible ==
    \A i \in DOMAIN units :
        (leap_ver = Some("15.4") /\ units[i].collection # None)
        => LET repos == units[i].repos[1]
               listing == units[i].collection[1]
               L == OfRepo(repos, "opensuse_leap_15_4")
               already_in_latest == "SUSE:SLE-15-SP4" \in listing
               in_latest_backports == "openSUSE:Backports:SLE-15-SP4" \in listing
               in_older_backports ==
                   \/ "openSUSE:Backports:SLE-15-SP3:Update" \in listing
                   \/ "openSUSE:Backports:SLE-15-SP2:Update" \in listing
           IN  /\ OfRepo(repos, "opensuse_tumbleweed") # {}
               /\ L # {}
               /\ repos[Lowest(L)].version # ExpectedNewest(repos)
               /\ units[i].st = "done"
               /\ units[i].res = "Ok"
               /\ TextsBy(stdout, i) =
                    IF in_latest_backports \/ (~already_in_latest /\ in_older_backports)
                    THEN <<ExpectedReport(pkgs[i], repos[Lowest(L)].version,
                                          ExpectedNewest(repos))>>
                    ELSE <<>>

\* a report through the older backports alone
C7_Witness ==
    \E i \in DOMAIN units :
        /\ leap_ver = Some("15.4") /\ units[i].collection # None
        /\ units[i].collection[1] = {"openSUSE:Backports:SLE-15-SP2:Update"}
        /\ TextsBy(stdout, i) # <<>>

\* C8 as claimed: with --leap, a package whose answer has no opensuse_tumbleweed
\* entry prints nothing, whatever the flag.
C8_LeapNeverShowsNotFound ==
    \A i \in DOMAIN units :
        (leap_ver # None /\ Answered(i) /\ OfRepo(units[i].repos[1], "opensuse_tumbleweed") = {})
        => TextsBy(stdout, i) = <<>>

\* C8, amended: with --leap, a package whose answer has no opensuse_tumbleweed
\* entry prints "Could not find package P" exactly when the flag is set, as
\* without --leap; it ends Ok and makes no branch request.
C8_LeapNotFoundNoticeIffFlag ==
    \A i \in DOMAIN units :
        (leap_ver # None /\ Answered(i) /\ OfRepo(units[i].repos[1], "opensuse_tumbleweed") = {})
        => /\ units[i].st = "done"
           /\ units[i].res = "Ok"
           /\ units[i].collection = None
           /\ TextsBy(stdout, i) = IF show_packages_not_found
                                   THEN <<ExpectedNotFound(pkgs[i])>> ELSE <<>>

\* the notice is printed in a run with --leap
C8_Witness ==
    \E i \in DOMAIN units :
        /\ leap_ver # None /\ Answered(i)
        /\ OfRepo(units[i].repos[1], "opensuse_tumbleweed") = {}
        /\ TextsBy(stdout, i) = <<ExpectedNotFound(pkgs[i])>>

\* C9 as claimed: with --leap, a package whose leap entry's version equals the
\* newest version prints no line at all.
C9_CurrentLeapPrintsNothing ==
    \A i \in DOMAIN units :
        (leap_ver # None /\ Answered(i))
        => LET repos == units[i].repos[1]
               L == OfRepo(repos, ExpectedLeapRepo(leap_ver[1]))
           IN  (L # {} /\ repos[Lowest(L)].version = ExpectedNewest(repos))
               => TextsBy(stdout, i) = <<>>

\* C9, amended: with --leap, a package that has an opensuse_tumbleweed entry and
\* whose first leap entry's version equals the newest version prints no line and
\* makes no branch request; without an opensuse_tumbleweed entry its only line
\* is the not-found notice, printed when the flag is set.
C9_CurrentLeapPrintsNoReport ==
    \A i \in DOMAIN units :
        (leap_ver # None /\ Answered(i))
        => LET repos == units[i].repos[1]
               L == OfRepo(repos, ExpectedLeapRepo(leap_ver[1]))
           IN  (L # {} /\ repos[Lowest(L)].version = ExpectedNewest(repos))
               => /\ units[i].st = "done"
                  /\ units[i].res = "Ok"
                  /\ units[i].collection = None
                  /\ TextsBy(stdout, i) =
                       IF OfRepo(repos, "opensuse_tumbleweed") = {} /\ show_packages_not_found
                       THEN <<ExpectedNotFound(pkgs[i])>> ELSE <<>>

\* a package current in leap, with an opensuse_tumbleweed entry, ends silent
C9_Witness ==
    \E i \in DOMAIN units :
        /\ leap_ver # None /\ Answered(i)
        /\ OfRepo(units[i].repos[1], "opensuse_tumbleweed") # {}
        /\ LET repos == units[i].repos[1]
               L == OfRepo(repos, ExpectedLeapRepo(leap_ver[1]))
           IN  L # {} /\ repos[Lowest(L)].version = ExpectedNewest(repos)
        /\ units[i].st = "done"
        /\ TextsBy(stdout, i) = <<>>

\* C10: a package named python-X is looked up as X and every line it prints
\* names python-X; a package without the prefix is looked up and printed under
\* the same name.
C10_StrippedLookupOriginalOutput ==
    \A i \in DOMAIN units :
        Started(i)
        => /\ IF Len(pkgs[i]) >= 7 /\ SubSeq(pkgs[i], 1, 7) = "python-"
              THEN "python-" \o units[i].repo_pkg = pkgs[i]
              ELSE units[i].repo_pkg = pkgs[i]
           /\ LET lines == TextsBy(stdout, i)
              IN  \A k \in DOMAIN lines :
                     \/ lines[k] = "Could not find package " \o pkgs[i]
                     \/ /\ Len(lines[k]) >= Len(pkgs[i]) + 2
                        /\ SubSeq(lines[k], 1, Len(pkgs[i]) + 2) = pkgs[i] \o ": "

\* python-foo was looked up as foo and its report names python-foo
C10_Witness ==
    \E i \in DOMAIN units :
        /\ pkgs[i] = "python-foo"
        /\ units[i].repo_pkg = "foo"
        /\ Answered(i) /\ units[i].repos[1] # <<>>
        /\ TextsBy(stdout, i) # <<>>
        /\ SubSeq(TextsBy(stdout, i)[1], 1, 12) = "python-foo: "

-----------------------------------------------------------------------------
(* C11 - C20: requests, completion and order *)

\* unit i has sent a branch request
Probed(i) == units[i].probes > 0 \/ units[i].branch_req # None \/ units[i].st = "probe"

\* C11: a unit sends the branch request only with --leap and only after its own
\* lookup returned an answer with an opensuse_tumbleweed entry and a leap entry
\* whose version differs from the newest version; without --leap no branch
\* request is ever sent, and none is sent while the lookup is pending.
C11_ProbeOnlyForLeapCandidate ==
    \A i \in DOMAIN units :
        /\ (units[i].st \in {"idle", "lookup"} => ~Probed(i))
        /\ (leap_ver = None => ~Probed(i))
        /\ Probed(i)
           => /\ leap_ver # None
              /\ Answered(i)
              /\ LET repos == units[i].repos[1]
                     L == OfRepo(repos, ExpectedLeapRepo(leap_ver[1]))
                 IN  /\ OfRepo(repos, "opensuse_tumbleweed") # {}
                     /\ L # {}
                     /\ repos[Lowest(L)].version # ExpectedNewest(repos)

\* a branch request is pending for a candidate
C11_Witness ==
    \E i \in DOMAIN units :
        /\ units[i].st = "probe"
        /\ leap_ver = Some("15.4")
        /\ Answered(i)
        /\ units[i].branch_req = Some([cmd |-> "branch", dryrun |-> TRUE, package |-> pkgs[i],
                                       update_project_attribute |-> "OBS:UpdateProject"])

\* C12: once the list is fetched and every request has returned, the batch is
\* complete and every maintained package went through exactly one unit that
\* reached its own final outcome: none skipped, none run twice.
C12_BatchEndsWithEveryPackageHandled ==
    (Terminal /\ pc # "failed")
    => /\ DOMAIN units = DOMAIN maintained
       /\ \A i \in DOMAIN units :
             /\ units[i].st \in {"done", "panicked"}
             /\ units[i].lookups = 1

\* C13: a request that never returns stalls its own slot only: every other
\* package still gets started and reaches its final outcome.
C13_HungRequestStallsOneSlot ==
    \A h \in DOMAIN units :
        units[h].hung
        => /\ pc # "panicked"
           /\ \A j \in DOMAIN units \ {h} :
                 /\ units[j].st # "dropped"
                 /\ (units[j].st \in {"idle", "lookup", "probe"} => pc = "running")

\* C14: no retries: a package causes at most one repology request and at most
\* one branch request, and a unit that returned an error stays finished.
C14_NoRetries ==
    \A i \in DOMAIN units :
        /\ units[i].lookups <= 1
        /\ units[i].probes <= 1
        /\ (units[i].res = "Err" => units[i].st = "done")
        /\ (units[i].st = "idle" <=> units[i].lookups = 0)

\* the batch ended after a unit failed once and another went on to finish
C14_Witness ==
    /\ pc = "done"
    /\ \E i \in DOMAIN units :
          /\ units[i].res = "Err" /\ units[i].lookups = 1
          /\ \E j \in DOMAIN units : j > i /\ units[j].res = "Ok"

\* the units that failed: those that returned Err and the one that panicked
Failed(i) == units[i].res = "Err" \/ units[i].st = "panicked"

\* C15: a failing unit leaves exactly one entry on standard error and no line
\* on standard output, a unit that does not fail leaves none on standard error;
\* the entries of a batch are as many as its failed units.
C15_OneErrorEntryPerFailedUnit ==
    /\ \A i \in DOMAIN units :
          IF Failed(i)
          THEN Len(TextsBy(stderr, i)) = 1 /\ TextsBy(stdout, i) = <<>>
          ELSE TextsBy(stderr, i) = <<>>
    /\ pc # "failed" => Len(stderr) = Cardinality({i \in DOMAIN units : Failed(i)})

\* two units failed, each with its own entry, and a third printed its report
C15_Witness ==
    /\ pc = "done"
    /\ Cardinality({i \in DOMAIN units : Failed(i)}) = 2
    /\ Len(stderr) = 2
    /\ \E j \in DOMAIN units : ~Failed(j) /\ TextsBy(stdout, j) # <<>>

\* C16: completion is unordered: a unit in flight can finish, and its output is
\* written, whatever the state of the units started before it.
C16_FinishedUnitNotHeldBack ==
    \A j \in DOMAIN units :
        /\ (pc = "running" /\ Filled /\ units[j].st = "lookup") => ENABLED LookupOk(j)
        /\ (units[j].st = "done" /\ units[j].res = "Err") => Len(TextsBy(stderr, j)) = 1
        /\ (units[j].st = "done" /\ units[j].res = "Ok" /\ leap_ver = None
            /\ OfRepo(units[j].repos[1], "opensuse_tumbleweed") = {}
            /\ show_packages_not_found)
           => TextsBy(stdout, j) = <<ExpectedNotFound(pkgs[j])>>

\* a later package has printed its report while an earlier one is in flight
C16_Witness ==
    \E i, j \in DOMAIN units :
        /\ i < j
        /\ units[i].st = "lookup"
        /\ units[j].st = "done"
        /\ Len(TextsBy(stdout, j)) = 1
        /\ stdout[1].by = j

\* C17: the batch only reads the build service: every branch request carries
\* the dry-run flag and the set of branches of the build service stays as it
\* was, through the listing of the maintained packages and through every unit.
C17_BuildServiceUnchanged ==
    /\ obs_branches = {}
    /\ \A i \in DOMAIN units :
          units[i].branch_req # None
          => /\ units[i].branch_req[1].dryrun
             /\ units[i].branch_req[1].cmd = "branch"
             /\ units[i].branch_req[1].package = pkgs[i]

\* a batch ended after a unit sent its branch request and got the listing
C17_Witness ==
    /\ pc = "done"
    /\ obs_branches = {}
    /\ \E i \in DOMAIN units :
          /\ units[i].branch_req # None
          /\ units[i].collection # None

\* C18: the outcome of a unit depends on its own answers only: a unit none of
\* whose requests failed ends with its answer evaluated and no error entry,
\* whatever the other units of the batch met.
C18_OutcomeFromOwnAnswersOnly ==
    Terminal
    => \A i \in DOMAIN units :
          units[i].cause = "none"
          => /\ Answered(i)
             /\ units[i].res = "Ok"
             /\ TextsBy(stderr, i) = <<>>

\* C19: a unit writes at most one line to standard output, a report or a
\* notice or nothing, so the lines of a batch are no more than its packages.
C19_AtMostOneLinePerUnit ==
    /\ \A i \in DOMAIN units :
          /\ Len(TextsBy(stdout, i)) <= 1
          /\ (TextsBy(stdout, i) # <<>> => units[i].st = "done" /\ units[i].res = "Ok")
    /\ Len(stdout) <= Len(pkgs)
    /\ \A k \in DOMAIN stdout : stdout[k].by \in DOMAIN units

\* a batch with --leap ended with a report printed after the branch listing
C19_Witness ==
    /\ pc = "done"
    /\ \E i \in DOMAIN units :
          /\ units[i].collection # None
          /\ Len(TextsBy(stdout, i)) = 1
    /\ \E j \in DOMAIN units : TextsBy(stdout, j) = <<>>

\* C20: units start in the order of the list, and with fewer than 4 in flight
\* and a package left in the stream the next package can be started at once.
C20_StartInOrderWorkConserving ==
    /\ \A i, j \in DOMAIN units : (i < j /\ Started(j)) => Started(i)
    /\ \A i \in DOMAIN units : Started(i) <=> i < next
    /\ (/\ pc = "running"
        /\ next <= Len(pkgs)
        /\ Cardinality({i \in DOMAIN units : units[i].st \in {"lookup", "probe"}}) < 4)
       => ENABLED Start(next)

\* a package is started while an earlier one is still in flight
C20_Witness ==
    /\ pc = "running"
    /\ next = 3
    /\ units[1].st = "lookup"
    /\ units[2].st = "lookup"

====
